---- MODULE Spec2Model ----
(***************************************************************************)
(* Model of targets/gce/instances.go: the process-wide GCE instances       *)
(* provider (a cache of compute.Instance records refilled by a background  *)
(* goroutine) and the instances facade that lists and resolves names       *)
(* against it.                                                             *)
(***************************************************************************)
EXTENDS Integers, Sequences, FiniteSets, TLC

\* ------------------------------------------------------------------------
\* Bounds and input domains
\* ------------------------------------------------------------------------

\* Longest list of instances one listInstances call returns.
MaxFetchLen == 2

\* Goroutines calling newInstances / List / Resolve.
Callers == {"c1", "c2"}

\* Slots for refresh goroutines (one per go statement that may execute).
LoopIds == {1, 2}

\* A nil pointer to a struct or message.
Nil == [nil |-> TRUE]

\* A nil *dnsRes.Resolver; also "no holder" of a mutex.
NoOne == "none"

\* Go strings that are parsed are sequences of one-character strings.
Digits == <<"0", "1", "2", "3", "4", "5", "6", "7", "8", "9">>

IsDigit(ch) == \E k \in 1..10 : Digits[k] = ch

DigitVal(ch) == (CHOOSE k \in 1..10 : Digits[k] = ch) - 1

\* ------------------------------------------------------------------------
\* net.IP parsing, as called from Resolve (IPv4 literals; no input holds ':')
\* ------------------------------------------------------------------------

\* net.IP(nil)
NilIP == <<>>

\* net: const big = 0xFFFFFF
big == 16777215

IPv4len == 4

\* net.dtoi: decimal to integer; returns number, characters consumed, success.
RECURSIVE dtoiFrom(_, _, _)
dtoiFrom(s, i, n) ==
    IF i <= Len(s) /\ IsDigit(s[i])
    THEN LET n2 == n * 10 + DigitVal(s[i])
         IN  IF n2 >= big
             THEN [n |-> big, i |-> i - 1, ok |-> FALSE]
             ELSE dtoiFrom(s, i + 1, n2)
    ELSE IF i = 1
         THEN [n |-> 0, i |-> 0, ok |-> FALSE]
         ELSE [n |-> n, i |-> i - 1, ok |-> TRUE]

dtoi(s) == dtoiFrom(s, 1, 0)

\* net.parseIPv4: four dot-separated decimal octets, nothing after them.
RECURSIVE parseIPv4From(_, _, _)
parseIPv4From(s, i, p) ==
    IF i = IPv4len
    THEN IF Len(s) # 0 THEN NilIP ELSE p
    ELSE IF Len(s) = 0
         THEN NilIP
         ELSE IF i > 0 /\ s[1] # "."
              THEN NilIP
              ELSE LET t == IF i > 0 THEN Tail(s) ELSE s
                       d == dtoi(t)
                   IN  IF ~d.ok \/ d.n > 255
                       THEN NilIP
                       ELSE parseIPv4From(SubSeq(t, d.i + 1, Len(t)), i + 1,
                                          Append(p, d.n))

parseIPv4(s) == parseIPv4From(s, 0, <<>>)

\* net.ParseIP: a string without '.' (or ':') is no IP literal.
ParseIP(s) ==
    IF \E k \in 1..Len(s) : s[k] = "." THEN parseIPv4(s) ELSE NilIP

\* 2^k for 0 <= k <= 8
Pow2(k) == CASE k = 0 -> 1 [] k = 1 -> 2 [] k = 2 -> 4 [] k = 3 -> 8
             [] k = 4 -> 16 [] k = 5 -> 32 [] k = 6 -> 64 [] k = 7 -> 128
             [] OTHER -> 256

\* Bits of octet k (1..4) that a prefix of n bits covers.
PrefixBits(n, k) ==
    LET r == n - 8 * (k - 1)
    IN  IF r <= 0 THEN 0 ELSE IF r >= 8 THEN 8 ELSE r

\* net.IP.Mask with net.CIDRMask(n, 32): clear the host bits.
MaskIP(ip, n) ==
    [k \in 1..Len(ip) |->
        LET h == Pow2(8 - PrefixBits(n, k)) IN (ip[k] \div h) * h]

\* bytealg index of '/', 0 when absent.
SlashIndex(s) ==
    IF \E k \in 1..Len(s) : s[k] = "/"
    THEN CHOOSE k \in 1..Len(s) : s[k] = "/" /\ \A j \in 1..(k - 1) : s[j] # "/"
    ELSE 0

\* net.ParseCIDR: returns the address (ip), the network (net = ip masked by the
\* prefix) and the error.
ParseCIDR(s) ==
    LET i == SlashIndex(s)
        bad == [ip |-> NilIP, net |-> NilIP, err |-> "ErrParseCIDR"]
    IN  IF i = 0
        THEN bad
        ELSE LET addr == SubSeq(s, 1, i - 1)
                 mask == SubSeq(s, i + 1, Len(s))
                 ip == parseIPv4(addr)
                 d == dtoi(mask)
             IN  IF ip = NilIP \/ ~d.ok \/ d.i # Len(mask) \/ d.n > 8 * IPv4len
                 THEN bad
                 ELSE [ip |-> ip, net |-> MaskIP(ip, d.n), err |-> "nil"]

\* ------------------------------------------------------------------------
\* compute.Instance records the inventory can return
\* ------------------------------------------------------------------------

S_10_0_0_5 == <<"1", "0", ".", "0", ".", "0", ".", "5">>
S_10_0_0_6 == <<"1", "0", ".", "0", ".", "0", ".", "6">>
S_10_0_0_7 == <<"1", "0", ".", "0", ".", "0", ".", "7">>
S_34_1_2_3 == <<"3", "4", ".", "1", ".", "2", ".", "3">>
S_34_1_2_4 == <<"3", "4", ".", "1", ".", "2", ".", "4">>
S_10_1_2_9 == <<"1", "0", ".", "1", ".", "2", ".", "9">>
S_10_1_2_0_24 == <<"1", "0", ".", "1", ".", "2", ".", "0", "/", "2", "4">>
S_10_1_2_9_24 == <<"1", "0", ".", "1", ".", "2", ".", "9", "/", "2", "4">>
S_10_1_2_9_33 == <<"1", "0", ".", "1", ".", "2", ".", "9", "/", "3", "3">>
S_empty == <<>>

\* compute.AccessConfig, compute.AliasIpRange, compute.NetworkInterface
AccessConfig(nat) == [NatIP |-> nat]

AliasIpRange(r) == [IpCidrRange |-> r]

NetworkInterface(ip, acs, ars) ==
    [NetworkIP |-> ip, AccessConfigs |-> acs, AliasIpRanges |-> ars]

\* compute.Instance
Instance(name, nis) == [Name |-> name, NetworkInterfaces |-> nis]

InstanceNames == {"vm0", "vm1"}

\* A nil *compute.Instance.
NilInstance == "nil"

\* The compute.Instance a non-nil pointer refers to. The cache, the fetched
\* lists and get's result hold pointers; the records are never written to.
Deref(p) ==
    CASE p = "vm0.full" ->
           Instance("vm0",
             << NetworkInterface(S_10_0_0_5,
                                 <<AccessConfig(S_34_1_2_3), AccessConfig(S_34_1_2_4)>>,
                                 <<AliasIpRange(S_10_1_2_9), AliasIpRange(S_10_1_2_0_24)>>),
                NetworkInterface(S_10_0_0_6,
                                 <<>>,
                                 <<AliasIpRange(S_10_1_2_9_33)>>) >>)
      [] p = "vm1.full" ->
           Instance("vm1",
             << NetworkInterface(S_10_0_0_7,
                                 <<AccessConfig(S_empty), AccessConfig(S_34_1_2_3)>>,
                                 <<AliasIpRange(S_10_1_2_9_24), AliasIpRange(S_10_1_2_9)>>),
                NetworkInterface(S_empty,
                                 <<AccessConfig(S_34_1_2_4)>>,
                                 <<>>) >>)
      [] p = "vm1.single" ->
           Instance("vm1",
             << NetworkInterface(S_10_0_0_6,
                                 <<AccessConfig(S_34_1_2_4), AccessConfig(S_empty)>>,
                                 <<AliasIpRange(S_10_1_2_0_24), AliasIpRange(S_10_1_2_9_24)>>) >>)
      [] p = "vm1.bare" -> Instance("vm1", <<>>)
      [] p = "vm0.plain" ->
           Instance("vm0", <<NetworkInterface(S_10_0_0_5, <<>>, <<>>)>>)
      [] p = "vm1.plain" ->
           Instance("vm1", <<NetworkInterface(S_10_0_0_6, <<>>, <<>>)>>)

\* A project whose machines cover the addressing cases of Resolve.
Universe == {"vm0.full", "vm1.full", "vm1.single", "vm1.bare"}

SeqsUpTo(S, n) == UNION {[1..k -> S] : k \in 0..n}

\* Successful results of listInstances.
FetchLists == SeqsUpTo(Universe, MaxFetchLen)

\* A project of plain machines: vm0, and vm1 seen with and without an interface.
BasicUniverse == {"vm0.plain", "vm1.plain", "vm1.bare"}

BasicFetchLists == SeqsUpTo(BasicUniverse, MaxFetchLen)

\* ------------------------------------------------------------------------
\* Instances configuration (pb) and newInstances arguments
\* ------------------------------------------------------------------------

IpTypes == {"PRIVATE", "PUBLIC", "ALIAS", "IPTYPE_3"}

NiIndexes == {0, 1}

\* Instances_NetworkInterface messages; Nil when network_intf is unset.
NetworkIntfs == {[index |-> i, ipType |-> t] : i \in NiIndexes, t \in IpTypes}


Pb(ni, dns) == [ni |-> ni, dns |-> dns]

Cfgs == {Pb(ni, dns) : ni \in NetworkIntfs \cup {Nil}, dns \in BOOLEAN}

Resolvers == {NoOne, "resolver"}

Args(pb, r) == [pb |-> pb, r |-> r]

Ni(i, t) == [index |-> i, ipType |-> t]

\* Arguments each caller passes to newInstances: one valid set (c1 the
\* default configuration, c2 DNS with a resolver) and invalid ones (an
\* interface together with DNS, DNS without a resolver, both).
ArgsOf(c) ==
    IF c = "c1"
    THEN {Args(Pb(Nil, FALSE), NoOne),
          Args(Pb(Ni(1, "ALIAS"), TRUE), NoOne),
          Args(Pb(Nil, TRUE), NoOne)}
    ELSE {Args(Pb(Nil, TRUE), "resolver"),
          Args(Pb(Ni(0, "PUBLIC"), TRUE), "resolver")}

ProjectOf(c) == IF c = "c1" THEN "p1" ELSE "p2"

ReEvalIntervalOf(c) == IF c = "c1" THEN "30s" ELSE "60s"

\* metadata.OnGCE() and metadata.InstanceName()
MetadataOutcomes ==
    { [onGCE |-> FALSE, name |-> "", err |-> FALSE],
      [onGCE |-> TRUE, name |-> "vm0", err |-> FALSE],
      [onGCE |-> TRUE, name |-> "", err |-> TRUE] }

\* Results of the external DNS resolver, i.r.Resolve(name, ipVer).
DnsOutcomes ==
    { [ip |-> <<10, 0, 0, 5>>, err |-> "nil"], [ip |-> NilIP, err |-> "ErrDNS"] }

\* ipVer is only handed on to the DNS resolver, whose answer is modelled as
\* any of DnsOutcomes; the cache path never reads it.
IpVersions == {4}

\* ------------------------------------------------------------------------
\* instances.Resolve on a cached record
\* ------------------------------------------------------------------------

Result(ip, err) == [ip |-> ip, err |-> err]

ResolvePrivateStrict(intf) ==
    IF ParseIP(intf.NetworkIP) = NilIP
    THEN Result(NilIP, "ErrParseIP")
    ELSE Result(ParseIP(intf.NetworkIP), "nil")

\* case Instances_NetworkInterface_PRIVATE
ResolvePrivate(intf) == Result(ParseIP(intf.NetworkIP), "nil")

ResolvePublicLast(intf) ==
    IF Len(intf.AccessConfigs) = 0
    THEN Result(NilIP, "ErrNoAccessConfig")
    ELSE Result(ParseIP(intf.AccessConfigs[Len(intf.AccessConfigs)].NatIP), "nil")

\* case Instances_NetworkInterface_PUBLIC
ResolvePublic(intf) ==
    IF Len(intf.AccessConfigs) = 0
    THEN Result(NilIP, "ErrNoAccessConfig")
    ELSE Result(ParseIP(intf.AccessConfigs[1].NatIP), "nil")

ResolveAliasCIDROnly(intf) ==
    IF Len(intf.AliasIpRanges) = 0
    THEN Result(NilIP, "ErrNoAliasRange")
    ELSE LET c == ParseCIDR(intf.AliasIpRanges[1].IpCidrRange)
         IN  Result(c.ip, c.err)

\* case Instances_NetworkInterface_ALIAS
ResolveAlias(intf) ==
    IF Len(intf.AliasIpRanges) = 0
    THEN Result(NilIP, "ErrNoAliasRange")
    ELSE LET s == intf.AliasIpRanges[1].IpCidrRange
             ip == ParseIP(s)
             c == ParseCIDR(s)
         IN  IF ip # NilIP THEN Result(ip, "nil") ELSE Result(c.ip, c.err)

ResolveInstanceModeFirst(pb, ins) ==
    LET niIndex == IF pb.ni # Nil THEN pb.ni.index ELSE 0
        ipType == IF pb.ni # Nil THEN pb.ni.ipType ELSE "PRIVATE"
    IN  IF ipType \notin {"PRIVATE", "PUBLIC", "ALIAS"}
        THEN Result(NilIP, "ErrUnknownIPType")
        ELSE IF Len(ins.NetworkInterfaces) <= niIndex
             THEN Result(NilIP, "ErrNoInterface")
             ELSE LET intf == ins.NetworkInterfaces[niIndex + 1]
                  IN  CASE ipType = "PRIVATE" -> ResolvePrivate(intf)
                        [] ipType = "PUBLIC" -> ResolvePublic(intf)
                        [] OTHER -> ResolveAlias(intf)

\* The part of Resolve after the cache lookup found a record.
ResolveInstance(pb, ins) ==
    LET niIndex == IF pb.ni # Nil THEN pb.ni.index ELSE 0
        ipType == IF pb.ni # Nil THEN pb.ni.ipType ELSE "PRIVATE"
    IN  IF Len(ins.NetworkInterfaces) <= niIndex
        THEN Result(NilIP, "ErrNoInterface")
        ELSE LET intf == ins.NetworkInterfaces[niIndex + 1]
             IN  CASE ipType = "PRIVATE" -> ResolvePrivate(intf)
                   [] ipType = "PUBLIC" -> ResolvePublic(intf)
                   [] ipType = "ALIAS" -> ResolveAlias(intf)
                   [] OTHER -> Result(NilIP, "ErrUnknownIPType")

ResolveCachedNoNilCheck(pb, ins) ==
    IF ins = NilInstance
    THEN Result(NilIP, "nil")
    ELSE ResolveInstance(pb, Deref(ins))

\* Resolve without DNS, given the result ins of globalInstancesProvider.get.
ResolveCached(pb, ins) ==
    IF ins = NilInstance
    THEN Result(NilIP, "ErrNotInDatabase")
    ELSE ResolveInstance(pb, Deref(ins))

\* ------------------------------------------------------------------------
\* newInstances argument validation
\* ------------------------------------------------------------------------

ValidationErrorNoResolverCheck(a) ==
    IF a.pb.ni # Nil /\ a.pb.dns THEN "ErrMutuallyExclusive" ELSE "nil"

\* The two checks at the top of newInstances.
ValidationError(a) ==
    IF a.pb.ni # Nil /\ a.pb.dns
    THEN "ErrMutuallyExclusive"
    ELSE IF a.pb.dns /\ a.r = NoOne
         THEN "ErrNilResolver"
         ELSE "nil"

\* ------------------------------------------------------------------------
\* State
\* ------------------------------------------------------------------------

VARIABLES
    provider,    \* globalInstancesProvider: Nil or its project, thisInstance, l
    names,       \* globalInstancesProvider.names
    cache,       \* globalInstancesProvider.cache: name -> *compute.Instance
    providerMu,  \* globalInstancesProviderMu: the caller holding it, or NoOne
    mu,          \* instancesProvider.mu: the loop holding the write lock, or 0
    loops,       \* the refresh goroutines started by initGlobalInstancesProvider
    callers,     \* the goroutines that construct and use instances objects
    pre,         \* names and cache as they were when mu was write-locked
    ret          \* what the last step returned to its caller or logged

vars == <<provider, names, cache, providerMu, mu, loops, callers, pre, ret>>

NoRet == [op |-> "none"]

EmptyCache == [n \in {} |-> NilInstance]

\* A goroutine slot no go statement has used yet.
LoopUnstarted ==
    [pc |-> "unstarted", interval |-> "none", ticker |-> "off",
     fetched |-> <<>>, idx |-> 0, result |-> <<>>]

CallerIdle(facade) == [pc |-> "idle", args |-> Nil, facade |-> facade]

Init ==
    /\ provider = Nil
    /\ names = <<>>
    /\ cache = EmptyCache
    /\ providerMu = NoOne
    /\ mu = 0
    /\ loops = [l \in LoopIds |-> LoopUnstarted]
    /\ callers = [c \in Callers |-> CallerIdle(Nil)]
    /\ pre = Nil
    /\ ret = NoRet

\* ------------------------------------------------------------------------
\* Locks
\* ------------------------------------------------------------------------

MutexAlwaysFree(m) == TRUE

\* sync.Mutex.Lock returns only when nobody holds the mutex.
MutexFree(m) == m = NoOne

RLockIgnoresWriter(m) == TRUE

\* sync.RWMutex.RLock returns only when no writer holds the lock. get and
\* list hold the read lock for one map or slice read, taken here as one step.
RLockOK(m) == m = 0

\* sync.RWMutex.Lock returns only when no writer (and no reader) holds it.
WLockOK(m) == m = 0

\* ------------------------------------------------------------------------
\* instancesProvider.get / list
\* ------------------------------------------------------------------------

\* m[name] on a Go map: nil for a missing key.
MapGet(m, name) == IF name \in DOMAIN m THEN m[name] ELSE NilInstance

\* ip.cache[name], under the read lock.
Get(name) == MapGet(cache, name)

\* append([]string{}, ip.names...)
ListNames == names

Range(s) == {s[k] : k \in 1..Len(s)}

\* ------------------------------------------------------------------------
\* newInstances / initGlobalInstancesProvider
\* ------------------------------------------------------------------------

\* newInstances rejects its arguments before touching the singleton.
newInstancesInvalid(c, a) ==
    /\ callers[c].pc = "idle"
    /\ ValidationError(a) # "nil"
    /\ callers' = [callers EXCEPT ![c] = CallerIdle(Nil)]
    /\ ret' = [op |-> "newInstances", c |-> c, args |-> a,
               err |-> ValidationError(a), facade |-> Nil]
    /\ UNCHANGED <<provider, names, cache, providerMu, mu, loops, pre>>

newInstancesReuseLastWins(c, a) ==
    /\ callers[c].pc = "idle"
    /\ ValidationError(a) = "nil"
    /\ MutexFree(providerMu)
    /\ provider # Nil
    /\ provider' = [provider EXCEPT !.project = ProjectOf(c), !.l = c]
    /\ callers' = [callers EXCEPT ![c] = CallerIdle(a)]
    /\ ret' = [op |-> "newInstances", c |-> c, args |-> a,
               err |-> "nil", facade |-> a]
    /\ UNCHANGED <<names, cache, providerMu, mu, loops, pre>>

\* newInstances with valid arguments enters initGlobalInstancesProvider, locks
\* globalInstancesProviderMu and finds the provider already initialized.
newInstancesReuse(c, a) ==
    /\ callers[c].pc = "idle"
    /\ ValidationError(a) = "nil"
    /\ MutexFree(providerMu)
    /\ provider # Nil
    /\ callers' = [callers EXCEPT ![c] = CallerIdle(a)]
    /\ ret' = [op |-> "newInstances", c |-> c, args |-> a,
               err |-> "nil", facade |-> a]
    /\ UNCHANGED <<provider, names, cache, providerMu, mu, loops, pre>>

\* As above, but the provider is nil: the caller goes on holding the mutex.
newInstancesLock(c, a) ==
    /\ callers[c].pc = "idle"
    /\ ValidationError(a) = "nil"
    /\ MutexFree(providerMu)
    /\ provider = Nil
    /\ providerMu' = c
    /\ callers' = [callers EXCEPT ![c] = [pc |-> "init", args |-> a, facade |-> Nil]]
    /\ ret' = NoRet
    /\ UNCHANGED <<provider, names, cache, mu, loops, pre>>

initMetadataErrorKeepsLock(c) ==
    /\ callers[c].pc = "init"
    /\ callers' = [callers EXCEPT ![c] = CallerIdle(Nil)]
    /\ ret' = [op |-> "newInstances", c |-> c, args |-> callers[c].args,
               err |-> "ErrMetadata", facade |-> Nil]
    /\ UNCHANGED <<provider, names, cache, providerMu, mu, loops, pre>>

\* metadata.InstanceName fails: initGlobalInstancesProvider returns the error.
initMetadataError(c) ==
    /\ callers[c].pc = "init"
    /\ providerMu' = NoOne
    /\ callers' = [callers EXCEPT ![c] = CallerIdle(Nil)]
    /\ ret' = [op |-> "newInstances", c |-> c, args |-> callers[c].args,
               err |-> "ErrMetadata", facade |-> Nil]
    /\ UNCHANGED <<provider, names, cache, mu, loops, pre>>

initCreateAfterFirstFetch(c, md) ==
    /\ callers[c].pc = "init"
    /\ ~md.err
    /\ \E l \in LoopIds :
        /\ loops[l].pc = "unstarted"
        /\ \A k \in LoopIds : k < l => loops[k].pc # "unstarted"
        /\ loops' = [loops EXCEPT ![l] =
                        [LoopUnstarted EXCEPT !.pc = "wait", !.ticker = "empty",
                                              !.interval = ReEvalIntervalOf(c)]]
    /\ provider' = [project |-> ProjectOf(c),
                    thisInstance |-> IF md.onGCE THEN md.name ELSE "",
                    l |-> c]
    /\ cache' = [n \in {"vm1"} |-> "vm1.plain"]
    /\ names' = <<"vm1">>
    /\ providerMu' = NoOne
    /\ callers' = [callers EXCEPT ![c] = CallerIdle(callers[c].args)]
    /\ ret' = [op |-> "newInstances", c |-> c, args |-> callers[c].args,
               err |-> "nil", facade |-> callers[c].args]
    /\ UNCHANGED <<mu, pre>>

\* The rest of initGlobalInstancesProvider: create the provider, start the
\* goroutine (which calls expand at once), unlock, return the new instances.
initCreate(c, md) ==
    /\ callers[c].pc = "init"
    /\ ~md.err
    /\ \E l \in LoopIds :
        /\ loops[l].pc = "unstarted"
        /\ \A k \in LoopIds : k < l => loops[k].pc # "unstarted"
        /\ loops' = [loops EXCEPT ![l] =
                        [LoopUnstarted EXCEPT !.pc = "listing",
                                              !.interval = ReEvalIntervalOf(c)]]
    /\ provider' = [project |-> ProjectOf(c),
                    thisInstance |-> IF md.onGCE THEN md.name ELSE "",
                    l |-> c]
    /\ cache' = EmptyCache
    /\ names' = <<>>
    /\ providerMu' = NoOne
    /\ callers' = [callers EXCEPT ![c] = CallerIdle(callers[c].args)]
    /\ ret' = [op |-> "newInstances", c |-> c, args |-> callers[c].args,
               err |-> "nil", facade |-> callers[c].args]
    /\ UNCHANGED <<mu, pre>>

\* ------------------------------------------------------------------------
\* instances.List / instances.Resolve
\* ------------------------------------------------------------------------

List(c) ==
    /\ callers[c].pc = "idle"
    /\ callers[c].facade # Nil
    /\ RLockOK(mu)
    /\ ret' = [op |-> "List", c |-> c, val |-> ListNames]
    /\ UNCHANGED <<provider, names, cache, providerMu, mu, loops, callers, pre>>

\* use_dns_to_resolve: the external resolver answers.
ResolveDNS(c, name, ipVer, out) ==
    /\ callers[c].pc = "idle"
    /\ callers[c].facade # Nil
    /\ callers[c].facade.pb.dns
    /\ ret' = [op |-> "Resolve", c |-> c, name |-> name, pb |-> callers[c].facade.pb,
               dns |-> TRUE, ins |-> NilInstance, ip |-> out.ip, err |-> out.err]
    /\ UNCHANGED <<provider, names, cache, providerMu, mu, loops, callers, pre>>

ResolveForgetsFailed(c, name, ipVer) ==
    /\ callers[c].pc = "idle"
    /\ callers[c].facade # Nil
    /\ ~callers[c].facade.pb.dns
    /\ RLockOK(mu)
    /\ LET ins == Get(name)
           r == ResolveCached(callers[c].facade.pb, ins)
       IN  /\ ret' = [op |-> "Resolve", c |-> c, name |-> name,
                      pb |-> callers[c].facade.pb, dns |-> FALSE, ins |-> ins,
                      ip |-> r.ip, err |-> r.err]
           /\ names' = IF r.err = "nil" THEN names
                       ELSE SelectSeq(names, LAMBDA n : n # name)
    /\ UNCHANGED <<provider, cache, providerMu, mu, loops, callers, pre>>

Resolve(c, name, ipVer) ==
    /\ callers[c].pc = "idle"
    /\ callers[c].facade # Nil
    /\ ~callers[c].facade.pb.dns
    /\ RLockOK(mu)
    /\ LET ins == Get(name)
           r == ResolveCached(callers[c].facade.pb, ins)
       IN  ret' = [op |-> "Resolve", c |-> c, name |-> name,
                   pb |-> callers[c].facade.pb, dns |-> FALSE, ins |-> ins,
                   ip |-> r.ip, err |-> r.err]
    /\ UNCHANGED <<provider, names, cache, providerMu, mu, loops, callers, pre>>

\* ------------------------------------------------------------------------
\* The refresh goroutine: expand, then expand again on every tick
\* ------------------------------------------------------------------------

LoopWaitingNoTicker(lp) ==
    [lp EXCEPT !.pc = "wait", !.fetched = <<>>, !.idx = 0, !.result = <<>>]

\* What expand leaves in a loop slot when it returns; the goroutine then
\* blocks on the channel of time.Tick (created after the first expand).
LoopWaiting(lp) ==
    [lp EXCEPT !.pc = "wait", !.fetched = <<>>, !.idx = 0, !.result = <<>>,
               !.ticker = IF lp.ticker = "off" THEN "empty" ELSE lp.ticker]

expandListErrorClearsNames(l) ==
    /\ loops[l].pc = "listing"
    /\ loops' = [loops EXCEPT ![l] = LoopWaiting(loops[l])]
    /\ names' = <<>>
    /\ ret' = [op |-> "expand", l |-> l, err |-> "ErrListInstances"]
    /\ UNCHANGED <<provider, cache, providerMu, mu, callers, pre>>

\* listInstances returns an error: expand logs it and returns.
expandListError(l) ==
    /\ loops[l].pc = "listing"
    /\ loops' = [loops EXCEPT ![l] = LoopWaiting(loops[l])]
    /\ ret' = [op |-> "expand", l |-> l, err |-> "ErrListInstances"]
    /\ UNCHANGED <<provider, names, cache, providerMu, mu, callers, pre>>

\* listInstances returns the instances of the project.
expandListOK(l, computeInstances) ==
    /\ loops[l].pc = "listing"
    /\ loops' = [loops EXCEPT ![l].pc = "lock", ![l].fetched = computeInstances]
    /\ ret' = NoRet
    /\ UNCHANGED <<provider, names, cache, providerMu, mu, callers, pre>>

\* ip.mu.Lock()
expandLock(l) ==
    /\ loops[l].pc = "lock"
    /\ WLockOK(mu)
    /\ mu' = l
    /\ pre' = [names |-> names, cache |-> cache]
    /\ loops' = [loops EXCEPT ![l].pc = "insert", ![l].idx = 1, ![l].result = <<>>]
    /\ ret' = NoRet
    /\ UNCHANGED <<provider, names, cache, providerMu, callers>>

SkipNothing(ins, thisInstance) == FALSE

\* if ins.Name == ip.thisInstance { continue }
SkipInstance(ins, thisInstance) == Deref(ins).Name = thisInstance

\* ip.cache[ins.Name] = ins
CachePut(c, ins) ==
    [n \in DOMAIN c \cup {Deref(ins).Name} |->
        IF n = Deref(ins).Name THEN ins ELSE c[n]]

\* One iteration of the for loop over computeInstances.
expandInsert(l) ==
    /\ loops[l].pc = "insert"
    /\ loops[l].idx <= Len(loops[l].fetched)
    /\ LET ins == loops[l].fetched[loops[l].idx]
       IN  IF SkipInstance(ins, provider.thisInstance)
           THEN /\ loops' = [loops EXCEPT ![l].idx = @ + 1]
                /\ cache' = cache
           ELSE /\ loops' = [loops EXCEPT ![l].idx = @ + 1,
                                          ![l].result = Append(@, Deref(ins).Name)]
                /\ cache' = CachePut(cache, ins)
    /\ ret' = NoRet
    /\ UNCHANGED <<provider, names, providerMu, mu, callers, pre>>

expandCommitNoUnlock(l) ==
    /\ loops[l].pc = "insert"
    /\ loops[l].idx > Len(loops[l].fetched)
    /\ names' = loops[l].result
    /\ loops' = [loops EXCEPT ![l] = LoopWaiting(loops[l])]
    /\ ret' = [op |-> "expand", l |-> l, err |-> "nil",
               fetched |-> loops[l].fetched, result |-> loops[l].result]
    /\ UNCHANGED <<provider, cache, providerMu, mu, callers, pre>>

\* ip.names = result, and the deferred ip.mu.Unlock().
expandCommit(l) ==
    /\ loops[l].pc = "insert"
    /\ loops[l].idx > Len(loops[l].fetched)
    /\ names' = loops[l].result
    /\ mu' = 0
    /\ pre' = Nil
    /\ loops' = [loops EXCEPT ![l] = LoopWaiting(loops[l])]
    /\ ret' = [op |-> "expand", l |-> l, err |-> "nil",
               fetched |-> loops[l].fetched, result |-> loops[l].result]
    /\ UNCHANGED <<provider, cache, providerMu, callers>>

\* The ticker sends on its channel of capacity 1 (a tick that finds the
\* channel full is dropped).
tickerFire(l) ==
    /\ loops[l].ticker = "empty"
    /\ loops' = [loops EXCEPT ![l].ticker = "full"]
    /\ ret' = NoRet
    /\ UNCHANGED <<provider, names, cache, providerMu, mu, callers, pre>>

loopTickWithoutTick(l) ==
    /\ loops[l].pc = "wait"
    /\ loops' = [loops EXCEPT ![l].pc = "listing", ![l].ticker = "empty"]
    /\ ret' = NoRet
    /\ UNCHANGED <<provider, names, cache, providerMu, mu, callers, pre>>

\* for _ = range time.Tick(reEvalInterval): receive a tick, call expand.
loopTick(l) ==
    /\ loops[l].pc = "wait"
    /\ loops[l].ticker = "full"
    /\ loops' = [loops EXCEPT ![l].pc = "listing", ![l].ticker = "empty"]
    /\ ret' = NoRet
    /\ UNCHANGED <<provider, names, cache, providerMu, mu, callers, pre>>

Next ==
    \/ \E c \in Callers : \E a \in ArgsOf(c) : newInstancesInvalid(c, a)
    \/ \E c \in Callers : \E a \in ArgsOf(c) : newInstancesReuse(c, a)
    \/ \E c \in Callers : \E a \in ArgsOf(c) : newInstancesLock(c, a)
    \/ \E c \in Callers : initMetadataError(c)
    \/ \E c \in Callers : \E md \in MetadataOutcomes : initCreate(c, md)
    \/ \E c \in Callers : List(c)
    \/ \E c \in Callers : \E name \in InstanceNames : \E v \in IpVersions :
           \E out \in DnsOutcomes : ResolveDNS(c, name, v, out)
    \/ \E c \in Callers : \E name \in InstanceNames : \E v \in IpVersions :
           Resolve(c, name, v)
    \/ \E l \in LoopIds : expandListError(l)
    \/ \E l \in LoopIds : \E computeInstances \in BasicFetchLists :
           expandListOK(l, computeInstances)
    \/ \E l \in LoopIds : expandLock(l)
    \/ \E l \in LoopIds : expandInsert(l)
    \/ \E l \in LoopIds : expandCommit(l)
    \/ \E l \in LoopIds : tickerFire(l)
    \/ \E l \in LoopIds : loopTick(l)

Spec == Init /\ [][Next]_vars

\* The scheduling the refresh goroutine relies on: the runtime's timer keeps
\* sending ticks, and the goroutine, whenever it can take its next step
\* (receive a tick, take the write lock, run an iteration, return), takes it.
\* Nothing is assumed about listInstances returning, nor about callers.
LoopFairness ==
    \A l \in LoopIds :
        /\ WF_vars(tickerFire(l))
        /\ WF_vars(loopTick(l))
        /\ WF_vars(expandLock(l))
        /\ WF_vars(expandInsert(l))
        /\ WF_vars(expandCommit(l))

\* The refresh goroutine from its start: the process after c1's newInstances
\* call initialized the provider, with c1 reading the names.
InitRefresh ==
    /\ \E md \in {m \in MetadataOutcomes : ~m.err} :
           provider = [project |-> ProjectOf("c1"),
                       thisInstance |-> IF md.onGCE THEN md.name ELSE "",
                       l |-> "c1"]
    /\ names = <<>>
    /\ cache = EmptyCache
    /\ providerMu = NoOne
    /\ mu = 0
    /\ loops = [l \in LoopIds |->
                   IF l = 1
                   THEN [LoopUnstarted EXCEPT !.pc = "listing",
                                              !.interval = ReEvalIntervalOf("c1")]
                   ELSE LoopUnstarted]
    /\ callers = [c \in Callers |->
                     IF c = "c1" THEN CallerIdle(Args(Pb(Nil, FALSE), NoOne))
                     ELSE CallerIdle(Nil)]
    /\ pre = Nil
    /\ ret = NoRet

NextRefresh ==
    \/ \E c \in Callers : List(c)
    \/ \E l \in LoopIds : expandListError(l)
    \/ \E l \in LoopIds : \E computeInstances \in BasicFetchLists :
           expandListOK(l, computeInstances)
    \/ \E l \in LoopIds : expandLock(l)
    \/ \E l \in LoopIds : expandInsert(l)
    \/ \E l \in LoopIds : expandCommit(l)
    \/ \E l \in LoopIds : tickerFire(l)
    \/ \E l \in LoopIds : loopTick(l)

SpecRefresh == InitRefresh /\ [][NextRefresh]_vars /\ LoopFairness

\* ------------------------------------------------------------------------
\* Resolution over every addressing configuration: the process after c1's
\* newInstances call initialized the provider and returned an instances
\* object that does not use DNS.
\* ------------------------------------------------------------------------

InitResolve ==
    /\ \E md \in {m \in MetadataOutcomes : ~m.err} :
           provider = [project |-> ProjectOf("c1"),
                       thisInstance |-> IF md.onGCE THEN md.name ELSE "",
                       l |-> "c1"]
    /\ names = <<>>
    /\ cache = EmptyCache
    /\ providerMu = NoOne
    /\ mu = 0
    /\ loops = [l \in LoopIds |->
                   IF l = 1
                   THEN [LoopUnstarted EXCEPT !.pc = "listing",
                                              !.interval = ReEvalIntervalOf("c1")]
                   ELSE LoopUnstarted]
    /\ \E pb \in {p \in Cfgs : ~p.dns} :
           callers = [c \in Callers |->
                         IF c = "c1" THEN CallerIdle(Args(pb, NoOne))
                         ELSE CallerIdle(Nil)]
    /\ pre = Nil
    /\ ret = NoRet

NextResolve ==
    \/ \E c \in Callers : List(c)
    \/ \E c \in Callers : \E name \in InstanceNames : \E v \in IpVersions :
           Resolve(c, name, v)
    \/ \E l \in LoopIds : expandListError(l)
    \/ \E l \in LoopIds : \E computeInstances \in FetchLists :
           expandListOK(l, computeInstances)
    \/ \E l \in LoopIds : expandLock(l)
    \/ \E l \in LoopIds : expandInsert(l)
    \/ \E l \in LoopIds : expandCommit(l)
    \/ \E l \in LoopIds : tickerFire(l)
    \/ \E l \in LoopIds : loopTick(l)

SpecResolve == InitResolve /\ [][NextResolve]_vars

\* ------------------------------------------------------------------------
\* Readers in every mode: the process after both callers got their instances
\* object, c1 one that reads the cache, c2 one that uses DNS.
\* ------------------------------------------------------------------------

\* A project with a machine of every address kind and one with a single
\* interface.
ReadersUniverse == {"vm0.full", "vm1.single"}

ReadersFetchLists == SeqsUpTo(ReadersUniverse, MaxFetchLen)

InitReaders ==
    /\ \E md \in {m \in MetadataOutcomes : ~m.err} :
           provider = [project |-> ProjectOf("c1"),
                       thisInstance |-> IF md.onGCE THEN md.name ELSE "",
                       l |-> "c1"]
    /\ names = <<>>
    /\ cache = EmptyCache
    /\ providerMu = NoOne
    /\ mu = 0
    /\ loops = [l \in LoopIds |->
                   IF l = 1
                   THEN [LoopUnstarted EXCEPT !.pc = "listing",
                                              !.interval = ReEvalIntervalOf("c1")]
                   ELSE LoopUnstarted]
    /\ \E pb \in {p \in Cfgs : ~p.dns} :
           callers = [c \in Callers |->
                         IF c = "c1" THEN CallerIdle(Args(pb, NoOne))
                         ELSE CallerIdle(Args(Pb(Nil, TRUE), "resolver"))]
    /\ pre = Nil
    /\ ret = NoRet

NextReaders ==
    \/ \E c \in Callers : List(c)
    \/ \E c \in Callers : \E name \in InstanceNames : \E v \in IpVersions :
           \E out \in DnsOutcomes : ResolveDNS(c, name, v, out)
    \/ \E c \in Callers : \E name \in InstanceNames : \E v \in IpVersions :
           Resolve(c, name, v)
    \/ \E l \in LoopIds : expandListError(l)
    \/ \E l \in LoopIds : \E computeInstances \in ReadersFetchLists :
           expandListOK(l, computeInstances)
    \/ \E l \in LoopIds : expandLock(l)
    \/ \E l \in LoopIds : expandInsert(l)
    \/ \E l \in LoopIds : expandCommit(l)
    \/ \E l \in LoopIds : tickerFire(l)
    \/ \E l \in LoopIds : loopTick(l)

SpecReaders == InitReaders /\ [][NextReaders]_vars

\* ------------------------------------------------------------------------
\* Properties
\* ------------------------------------------------------------------------

Initialized == provider # Nil

Self == provider.thisInstance

NamesOf(list) == {Deref(list[k]).Name : k \in 1..Len(list)}

CachedRead == ret.op = "Resolve" /\ ~ret.dns

\* C1: whenever a reader can run, the set of names List() returns equals the
\* set of names for which get(name) returns a record.
C1_ListEqualsCacheKeys ==
    (Initialized /\ mu = 0) =>
        Range(ListNames) = {n \in InstanceNames : Get(n) # NilInstance}

\* C2: when a successful refresh completes, get(name) returns a record exactly
\* for the names of the fetched list other than this instance.
C2_CacheIsLastFetch ==
    (ret.op = "expand" /\ ret.err = "nil") =>
        \A n \in InstanceNames :
            Get(n) # NilInstance <=> (n \in NamesOf(ret.fetched) /\ n # Self)

\* What one whole refresh makes of a snapshot: every fetched record other than
\* this instance stored under its name (the last one wins), the names of those
\* records in fetch order.
Refreshed(snap, fetched, self) ==
    LET kept == SelectSeq(fetched, LAMBDA ins : Deref(ins).Name # self)
        last(n) == CHOOSE k \in 1..Len(kept) :
                       /\ Deref(kept[k]).Name = n
                       /\ \A j \in (k + 1)..Len(kept) : Deref(kept[j]).Name # n
    IN  [names |-> [k \in 1..Len(kept) |-> Deref(kept[k]).Name],
         cache |-> [n \in DOMAIN snap.cache \cup NamesOf(kept) |->
                       IF n \in NamesOf(kept) THEN kept[last(n)]
                       ELSE snap.cache[n]]]

Current == [names |-> names, cache |-> cache]

\* The snapshots on either side of the commit in progress, if there is one.
Before == IF mu = 0 THEN Current ELSE pre

After == IF mu = 0 THEN Current ELSE Refreshed(pre, loops[mu].fetched, Self)

\* C3: what a get or list call reads is the provider either as it was before
\* the commit in progress or as it is after it, never a state in between;
\* and the state a commit ends in is the whole refresh of the state it began in.
C3_ReadersSeeWholeSnapshots ==
    /\ (ret.op = "List" \/ CachedRead) => (Current = Before \/ Current = After)
    /\ ret.op = "List" => (ret.val = Before.names \/ ret.val = After.names)
    /\ CachedRead =>
           \/ ret.ins = MapGet(Before.cache, ret.name)
           \/ ret.ins = MapGet(After.cache, ret.name)
    /\ \A l \in LoopIds :
           (loops[l].pc = "insert" /\ loops[l].idx > Len(loops[l].fetched)) =>
               /\ mu = l
               /\ cache = After.cache
               /\ loops[l].result = After.names

\* A reader returned while a fetched list of two new records waits to be committed.
C3_Witness ==
    /\ (ret.op = "List" \/ CachedRead)
    /\ \E l \in LoopIds :
           /\ loops[l].pc = "lock"
           /\ Len(loops[l].fetched) = 2
           /\ NamesOf(loops[l].fetched) \cap DOMAIN cache = {}
           /\ names # <<>>

\* C4: a refresh whose listInstances call fails leaves the names, every get
\* and every cache-based Resolve result as they were.
C4_FailedRefreshChangesNothing ==
    [][(ret'.op = "expand" /\ ret'.err # "nil") =>
          /\ names' = names
          /\ \A n \in InstanceNames :
                 /\ MapGet(cache', n) = MapGet(cache, n)
                 /\ \A pb \in {p \in Cfgs : ~p.dns} :
                        ResolveCached(pb, MapGet(cache', n))
                            = ResolveCached(pb, MapGet(cache, n))]_vars

\* A failed refresh came after a successful one filled the cache.
C4_Witness ==
    /\ ret.op = "expand"
    /\ ret.err # "nil"
    /\ names # <<>>
    /\ DOMAIN cache # {}

Started == {l \in LoopIds : loops[l].pc # "unstarted"}

\* C5: at most one refresh goroutine is ever started, and at most one
\* listInstances call is in flight.
C5_AtMostOneLoop ==
    /\ Cardinality(Started) <= 1
    /\ Cardinality({l \in LoopIds : loops[l].pc = "listing"}) <= 1

\* Both callers went through newInstances and hold an instances object.
C5_Witness ==
    /\ ret.op = "newInstances"
    /\ ret.err = "nil"
    /\ \A c \in Callers : callers[c].facade # Nil
    /\ Cardinality(Started) = 1

\* C6: when this instance's name is known, it is not in names, and no List
\* call returns it.
C6_SelfNeverListed ==
    (Initialized /\ Self # "") =>
        /\ Self \notin Range(names)
        /\ ret.op = "List" => Self \notin Range(ret.val)
        /\ (ret.op = "expand" /\ ret.err = "nil") => Self \notin Range(ret.result)

\* A refresh whose fetched list held this instance and another one completed.
C6_Witness ==
    /\ Initialized
    /\ Self # ""
    /\ ret.op = "expand"
    /\ ret.err = "nil"
    /\ Self \in NamesOf(ret.fetched)
    /\ names # <<>>

\* C7: newInstances fails, returning no instances object, when network_intf
\* and use_dns_to_resolve are both set and when use_dns_to_resolve is set with
\* a nil resolver; the error is a function of these arguments alone.
C7_InvalidConfigRejected ==
    ret.op = "newInstances" =>
        LET both == ret.args.pb.ni # Nil /\ ret.args.pb.dns
            noResolver == ret.args.pb.dns /\ ret.args.r = NoOne
        IN  /\ both => (ret.err = "ErrMutuallyExclusive" /\ ret.facade = Nil)
            /\ (noResolver /\ ~both) =>
                   (ret.err = "ErrNilResolver" /\ ret.facade = Nil)
            /\ (both \/ noResolver) => callers[ret.c].facade = Nil

\* DNS without a resolver was rejected with the provider initialized and the
\* cache filled.
C7_Witness ==
    /\ ret.op = "newInstances"
    /\ ret.err = "ErrNilResolver"
    /\ Initialized
    /\ names # <<>>

\* The interface a cache-based Resolve selected, when the record has it.
RetIndex == IF ret.pb.ni # Nil THEN ret.pb.ni.index ELSE 0

RetType == IF ret.pb.ni # Nil THEN ret.pb.ni.ipType ELSE "PRIVATE"

HasIntf ==
    /\ CachedRead
    /\ ret.ins # NilInstance
    /\ Len(Deref(ret.ins).NetworkInterfaces) > RetIndex

RetIntf == Deref(ret.ins).NetworkInterfaces[RetIndex + 1]

\* C8: a cache-based Resolve of a name that is not a key of the cache returns
\* the not-found error and no IP, whatever the addressing mode and index.
C8_AbsentNameNotFound ==
    (CachedRead /\ ret.name \notin DOMAIN cache) =>
        (ret.err = "ErrNotInDatabase" /\ ret.ip = NilIP)

\* ALIAS mode at index 1 resolved a name missing from a filled cache.
C8_Witness ==
    /\ CachedRead
    /\ ret.name \notin DOMAIN cache
    /\ DOMAIN cache # {}
    /\ ret.pb.ni # Nil
    /\ ret.pb.ni.ipType = "ALIAS"
    /\ ret.pb.ni.index = 1

AliasCase == HasIntf /\ RetType = "ALIAS"

\* The part of a CIDR string before its slash.
AddressPart(s) == SubSeq(s, 1, SlashIndex(s) - 1)

IsCIDR(s) == ParseCIDR(s).err = "nil"

\* C9 as stated: in ALIAS mode Resolve fails without alias ranges; else it
\* looks at the first range only: a bare IP is returned as it is, a CIDR gives
\* its network address (host bits cleared), anything else the parser's error.
C9_AliasReturnsNetworkAddress ==
    AliasCase =>
        IF Len(RetIntf.AliasIpRanges) = 0
        THEN ret.err = "ErrNoAliasRange" /\ ret.ip = NilIP
        ELSE LET s == RetIntf.AliasIpRanges[1].IpCidrRange
             IN  IF ParseIP(s) # NilIP
                 THEN ret.err = "nil" /\ ret.ip = ParseIP(s)
                 ELSE IF IsCIDR(s)
                      THEN ret.err = "nil" /\ ret.ip = ParseCIDR(s).net
                      ELSE ret.err = "ErrParseCIDR"

\* C9 amended: as above, but a CIDR gives the address written before the
\* slash, host bits kept (10.1.2.9/24 gives 10.1.2.9, 10.1.2.0/24 gives
\* 10.1.2.0), and the parser's error comes with no IP.
C9_AliasReturnsWrittenAddress ==
    AliasCase =>
        IF Len(RetIntf.AliasIpRanges) = 0
        THEN ret.err = "ErrNoAliasRange" /\ ret.ip = NilIP
        ELSE LET s == RetIntf.AliasIpRanges[1].IpCidrRange
             IN  /\ IF ParseIP(s) # NilIP
                    THEN ret.err = "nil" /\ ret.ip = ParseIP(s)
                    ELSE IF IsCIDR(s)
                         THEN ret.err = "nil" /\ ret.ip = parseIPv4(AddressPart(s))
                         ELSE ret.err = "ErrParseCIDR" /\ ret.ip = NilIP
                 /\ s = S_10_1_2_9 => (ret.err = "nil" /\ ret.ip = <<10, 1, 2, 9>>)
                 /\ s = S_10_1_2_0_24 => (ret.err = "nil" /\ ret.ip = <<10, 1, 2, 0>>)
                 /\ s = S_10_1_2_9_24 => (ret.err = "nil" /\ ret.ip = <<10, 1, 2, 9>>)
                 /\ s = S_10_1_2_9_33 => ret.err = "ErrParseCIDR"

\* ALIAS mode resolved a record whose first alias range is 10.1.2.9/24 and is
\* followed by another range.
C9_Witness ==
    /\ AliasCase
    /\ Len(RetIntf.AliasIpRanges) = 2
    /\ RetIntf.AliasIpRanges[1].IpCidrRange = S_10_1_2_9_24
    /\ ret.ip = <<10, 1, 2, 9>>

PublicCase == HasIntf /\ RetType = "PUBLIC"

\* C10: in PUBLIC mode Resolve fails when the selected interface has no access
\* config, and else returns the NatIP of its first access config.
C10_PublicReturnsFirstNatIP ==
    PublicCase =>
        IF Len(RetIntf.AccessConfigs) = 0
        THEN ret.err = "ErrNoAccessConfig" /\ ret.ip = NilIP
        ELSE LET nat == RetIntf.AccessConfigs[1].NatIP
             IN  /\ ret.err = "nil"
                 /\ ret.ip = ParseIP(nat)
                 /\ nat = S_34_1_2_3 => ret.ip = <<34, 1, 2, 3>>
                 /\ nat = S_34_1_2_4 => ret.ip = <<34, 1, 2, 4>>

\* PUBLIC mode resolved an interface with two different access configs.
C10_Witness ==
    /\ PublicCase
    /\ Len(RetIntf.AccessConfigs) = 2
    /\ RetIntf.AccessConfigs[1].NatIP = S_34_1_2_3
    /\ RetIntf.AccessConfigs[2].NatIP = S_34_1_2_4
    /\ RetIntf.NetworkIP = S_10_0_0_5
    /\ ret.ip = <<34, 1, 2, 3>>

\* A cache-based Resolve that found a record.
Found == CachedRead /\ ret.ins # NilInstance

RetInterfaces == Deref(ret.ins).NetworkInterfaces

\* C11: without a network_intf configuration Resolve uses interface 0 and
\* PRIVATE; in PRIVATE mode, default or explicit, it returns the NetworkIP of
\* the interface at the selected index with a nil error, and its only error
\* is the one for a record without an interface at that index.
C11_DefaultIndexZeroPrivate ==
    Found =>
        /\ ret.pb.ni = Nil =>
               IF Len(RetInterfaces) = 0
               THEN ret.err = "ErrNoInterface"
               ELSE /\ ret.err = "nil"
                    /\ ret.ip = ParseIP(RetInterfaces[1].NetworkIP)
        /\ (ret.pb.ni # Nil /\ ret.pb.ni.ipType = "PRIVATE") =>
               IF Len(RetInterfaces) <= ret.pb.ni.index
               THEN ret.err = "ErrNoInterface"
               ELSE /\ ret.err = "nil"
                    /\ ret.ip = ParseIP(RetInterfaces[ret.pb.ni.index + 1].NetworkIP)
        /\ (HasIntf /\ RetType = "PRIVATE") =>
               /\ RetIntf.NetworkIP = S_10_0_0_5 => ret.ip = <<10, 0, 0, 5>>
               /\ RetIntf.NetworkIP = S_10_0_0_7 => ret.ip = <<10, 0, 0, 7>>

\* The default configuration resolved a record with two interfaces whose
\* first one has the private address 10.0.0.7.
C11_Witness ==
    /\ Found
    /\ ret.pb.ni = Nil
    /\ Len(RetInterfaces) = 2
    /\ RetInterfaces[1].NetworkIP = S_10_0_0_7
    /\ RetInterfaces[2].NetworkIP # S_10_0_0_7
    /\ ret.ip = <<10, 0, 0, 7>>
    /\ ret.err = "nil"

\* C12: in every mode, when the record has no more interfaces than the
\* selected index, Resolve returns the no-interface error and no IP, also
\* where the mode alone would give another error.
C12_MissingInterfaceFirst ==
    (Found /\ Len(RetInterfaces) <= RetIndex) =>
        (ret.err = "ErrNoInterface" /\ ret.ip = NilIP)

\* An unknown mode at index 1 resolved a record with a single interface.
C12_Witness ==
    /\ Found
    /\ ret.pb.ni # Nil
    /\ ret.pb.ni.ipType \notin {"PRIVATE", "PUBLIC", "ALIAS"}
    /\ ret.pb.ni.index = 1
    /\ Len(RetInterfaces) = 1
    /\ ret.err = "ErrNoInterface"

\* C13: a cache-based Resolve returns either an IP with a nil error or an
\* error with no IP, never no IP with a nil error.
C13_IPOrError ==
    CachedRead =>
        \/ (ret.ip # NilIP /\ ret.err = "nil")
        \/ (ret.ip = NilIP /\ ret.err # "nil")

\* A listInstances call is in flight (pending, or hung for ever).
Fetching == {l \in LoopIds : loops[l].pc = "listing"}

\* The callers that hold an instances object and are free to call it.
Readers == {c \in Callers : callers[c].pc = "idle" /\ callers[c].facade # Nil}

\* C14: while a listInstances call is in flight nobody holds the write lock
\* of the cache, and no refresh is between Lock and Unlock: the read lock,
\* the one thing a List or cache-based Resolve call of a reader waits for,
\* can be taken.
C14_FetchOutsideLock ==
    Fetching # {} =>
        /\ mu = 0
        /\ pre = Nil
        /\ \A l \in LoopIds : loops[l].pc # "insert"
        /\ RLockOK(mu)

\* A reader returned during a fetch that follows a successful refresh.
C14_Witness ==
    /\ Fetching # {}
    /\ ret.op \in {"List", "Resolve"}
    /\ names # <<>>
    /\ \A c \in Callers : c \in Readers

\* The names of a fetched list without this instance, in fetch order.
NamesMinusSelf(f) ==
    LET kept == SelectSeq(f, LAMBDA ins : Deref(ins).Name # Self)
    IN  [k \in 1..Len(kept) |-> Deref(kept[k]).Name]

\* C15: a refresh that returned, failed or not, is followed by another
\* listInstances call; and a listInstances call that returned a list is
\* followed by names being the names of that list without this instance.
C15_RefreshGoesOn ==
    \A l \in LoopIds :
        /\ (loops[l].pc = "wait") ~> (loops[l].pc = "listing")
        /\ \A f \in BasicFetchLists :
               (loops[l].pc = "lock" /\ loops[l].fetched = f)
                   ~> (Initialized /\ names = NamesMinusSelf(f))

\* A failed refresh returned after a successful one, and the loop waits for
\* its next tick.
C15_Witness ==
    /\ ret.op = "expand"
    /\ ret.err = "ErrListInstances"
    /\ loops[ret.l].pc = "wait"
    /\ loops[ret.l].ticker = "empty"
    /\ names # <<>>

\* The step in which loop l calls listInstances.
FetchStarts(l) == loops[l].pc # "listing" /\ loops'[l].pc = "listing"

\* C16: a fetch starts either as the first act of a goroutine just started,
\* when its ticker does not exist yet, or by taking a tick out of the channel;
\* either way the channel holds no tick when the fetch starts, so the tick
\* the next fetch takes is sent after this fetch started. A goroutine never
\* waits for a tick before its first fetch returned.
C16_FetchFirstOrOnTick ==
    [][\A l \in LoopIds :
          /\ FetchStarts(l) =>
                 \/ /\ loops[l].pc = "unstarted"
                    /\ loops'[l].ticker = "off"
                 \/ /\ loops[l].pc = "wait"
                    /\ loops[l].ticker = "full"
                    /\ loops'[l].ticker = "empty"
          /\ loops[l].pc = "unstarted" => loops'[l].pc \in {"unstarted", "listing"}
          /\ (loops[l].ticker # "full" /\ loops'[l].ticker = "full") =>
                 (loops[l].ticker = "empty" /\ loops'[l].pc = loops[l].pc)
          /\ loops'[l].pc = "wait" => loops'[l].ticker # "off"]_vars

\* A fetch started by a tick is in flight and the next tick is already in
\* the channel.
C16_Witness ==
    \E l \in LoopIds :
        /\ loops[l].pc = "listing"
        /\ loops[l].ticker = "full"
        /\ names # <<>>

\* C17: a newInstances call made when the provider is initialized, whatever
\* project, interval and logger it passes, leaves the provider's project,
\* thisInstance and logger, the refresh goroutines with their interval, the
\* names and the cache as they were; when it succeeds the caller holds an
\* instances object, and what any instances object reads is the names and
\* the cache of that one provider.
C17_FirstCallerWins ==
    [][/\ (Initialized /\ ret'.op = "newInstances") =>
              /\ provider' = provider
              /\ names' = names
              /\ cache' = cache
              /\ loops' = loops
              /\ mu' = mu
              /\ ret'.err = "nil" =>
                     /\ ret'.facade = ret'.args
                     /\ callers'[ret'.c].facade = ret'.args
       /\ ret'.op = "List" => ret'.val = names
       /\ (ret'.op = "Resolve" /\ ~ret'.dns) => ret'.ins = MapGet(cache, ret'.name)]_vars

\* A caller with another project and interval than the provider's got its
\* instances object after a refresh filled the cache.
C17_Witness ==
    /\ ret.op = "newInstances"
    /\ ret.err = "nil"
    /\ Initialized
    /\ provider.l # ret.c
    /\ provider.project # ProjectOf(ret.c)
    /\ \E l \in Started : loops[l].interval # ReEvalIntervalOf(ret.c)
    /\ names # <<>>

\* C18: a List or Resolve call, failed or not, with DNS or in any addressing
\* mode, leaves names and cache (and the rest of the provider, the refresh
\* goroutine and the locks) as they were, so that every List and Resolve
\* call gives the result it would give had that call not been made.
C18_ReadsChangeNothing ==
    [][ret'.op \in {"List", "Resolve"} =>
          /\ names' = names
          /\ cache' = cache
          /\ provider' = provider
          /\ loops' = loops
          /\ mu' = mu
          /\ providerMu' = providerMu
          /\ callers' = callers]_vars

\* A Resolve call in ALIAS mode failed on a record that is cached and listed.
C18_Witness ==
    /\ Found
    /\ RetType = "ALIAS"
    /\ ret.err \notin {"nil", "ErrNotInDatabase"}
    /\ ret.name \in Range(names)
    /\ Len(names) = 2

\* A newInstances call returned an error.
FailedNew == ret.op = "newInstances" /\ ret.err # "nil"

\* C19: a newInstances call that fails, on its arguments or on the metadata
\* lookup, leaves the provider, names, cache and refresh goroutines as they
\* were, starting none, and does not keep the provider's mutex: a provider
\* that was nil stays nil, with the mutex free after a metadata error; and
\* every newInstances call that succeeds leaves the provider initialized
\* with exactly one refresh goroutine.
C19_FailedNewChangesNothing ==
    [][/\ (FailedNew' \/ \E c \in Callers : callers'[c].pc = "init") =>
              /\ provider' = provider
              /\ names' = names
              /\ cache' = cache
              /\ loops' = loops
              /\ mu' = mu
       /\ FailedNew' =>
              /\ ret'.facade = Nil
              /\ callers'[ret'.c].pc = "idle"
              /\ providerMu' # ret'.c
              /\ ret'.err = "ErrMetadata" =>
                     (provider' = Nil /\ Started = {} /\ providerMu' = NoOne)
       /\ (ret'.op = "newInstances" /\ ret'.err = "nil") =>
              /\ provider' # Nil
              /\ Cardinality({l \in LoopIds : loops'[l].pc # "unstarted"}) = 1
              /\ provider = Nil =>
                     \E l \in LoopIds : /\ loops[l].pc = "unstarted"
                                        /\ loops'[l].pc = "listing"]_vars

\* The metadata lookup of c2's call failed, nobody holds an instances object:
\* the provider is nil, no goroutine runs, the mutex is free.
C19_Witness ==
    /\ FailedNew
    /\ ret.err = "ErrMetadata"
    /\ ret.c = "c2"
    /\ provider = Nil
    /\ providerMu = NoOne
    /\ Started = {}
    /\ \A c \in Callers : callers[c].pc = "idle" /\ callers[c].facade = Nil

\* The provider as initGlobalInstancesProvider creates it, or after refreshes
\* that stored nothing, and no refresh between Lock and Unlock.
Unrefreshed == Initialized /\ names = <<>> /\ cache = EmptyCache /\ mu = 0

\* C20: whoever holds an instances object finds the provider initialized;
\* the newInstances call that creates the provider leaves it with no names
\* and an empty cache and returns with the first listInstances call still to
\* be made; from then until a refresh that fetched a list takes the write
\* lock, names and cache stay empty, every List call returns the empty list
\* and every cache-based Resolve call the not-found error and no IP.
C20_EmptyUntilFirstRefresh ==
    [][/\ (\E c \in Callers : callers'[c].facade # Nil) => provider' # Nil
       /\ (ret'.op = "newInstances" /\ ret'.err = "nil" /\ provider = Nil) =>
              /\ names' = <<>>
              /\ cache' = EmptyCache
              /\ mu' = 0
              /\ \E l \in LoopIds : /\ loops'[l].pc = "listing"
                                     /\ loops'[l].ticker = "off"
       /\ Unrefreshed =>
              \/ names' = <<>> /\ cache' = EmptyCache /\ mu' = 0 /\ provider' # Nil
              \/ \E l \in LoopIds : /\ loops[l].pc = "lock"
                                     /\ loops'[l].pc = "insert"
                                     /\ mu' = l
       /\ (Unrefreshed /\ ret'.op = "List") => ret'.val = <<>>
       /\ (Unrefreshed /\ ret'.op = "Resolve" /\ ~ret'.dns) =>
              (ret'.err = "ErrNotInDatabase" /\ ret'.ip = NilIP)]_vars

\* A cache-based Resolve call was made while the first listInstances call
\* was still in flight.
C20_Witness ==
    /\ CachedRead
    /\ ret.err = "ErrNotInDatabase"
    /\ Unrefreshed
    /\ \E l \in LoopIds : loops[l].pc = "listing" /\ loops[l].ticker = "off"

====
